---- MODULE Spec2Model ----
(***************************************************************************)
(* Model of aa-session-batcher.ts: one run of main() drains the queue      *)
(* file, selects operations per target under the admission cap and the     *)
(* policy, backfills fees from the relay's gas price, and submits the      *)
(* bundle with retries; the queue file is rewritten on success. The write  *)
(* of the queue file happens inside the retry loop's try block, so a write *)
(* that throws is retried like a failed submission.                        *)
(*                                                                         *)
(* Hex strings ("0x...") are modelled by the sequence of their hex digits  *)
(* after the "0x" prefix: "0x0" is <<0>>, "0x00" is <<0, 0>>, "0x" is <<>>.*)
(* A bigint is modelled by its canonical digit sequence (no leading zero,  *)
(* zero is <<0>>), which is also what toString(16) prints.                 *)
(***************************************************************************)
EXTENDS Integers, Sequences, FiniteSets, TLC

\* ---------------------------------------------------------------- bounds
MaxQueue == 3        \* longest queue file at the start
MaxRuns == 2         \* invocations of main() in one behaviour
MaxQueueRuns == 2    \* longest queue file at the start, for several runs
MaxCap == 2          \* largest --max-per-target value tried
MaxArrivals == 1     \* entries appended by the external enqueue step
MaxQueueArrival == 2 \* longest queue file at the start, with the enqueue step
MaxQueueLive == 2    \* longest queue file at the start, for repeated runs
MaxWriteFailures == 5 \* writes of the queue file that fail in one run

\* ------------------------------------------------------- program constants
MaxAttempts == 5
BackoffCapSec == 60
MaxCallGas == 6000000
MaxFeeGwei == 200
MaxPriorityGwei == 20

\* ------------------------------------------------------------- arithmetic
Min(a, b) == IF a < b THEN a ELSE b

Max(a, b) == IF a > b THEN a ELSE b

RECURSIVE Pow2(_)
Pow2(n) == IF n = 0 THEN 1 ELSE 2 * Pow2(n - 1)

\* BigInt(v).toString(16) for a number v, as hex digits
RECURSIVE NatToHex(_)
NatToHex(n) == IF n < 16 THEN <<n>> ELSE Append(NatToHex(n \div 16), n % 16)

\* BigInt("0x" + digits): the value, leading zeros gone
RECURSIVE BigInt(_)
BigInt(s) == IF Len(s) > 1 /\ Head(s) = 0 THEN BigInt(Tail(s)) ELSE s

\* a > b on bigints
RECURSIVE LexGt(_, _)
LexGt(a, b) ==
    IF a = <<>> THEN FALSE
    ELSE IF Head(a) # Head(b) THEN Head(a) > Head(b)
    ELSE LexGt(Tail(a), Tail(b))

BigGt(a, b) == Len(a) > Len(b) \/ (Len(a) = Len(b) /\ LexGt(a, b))

\* a * k on bigints, k a small number; digits with the carry, low digit last
RECURSIVE MulCarry(_, _, _)
MulCarry(a, k, carry) ==
    IF a = <<>> THEN (IF carry = 0 THEN <<>> ELSE NatToHex(carry))
    ELSE LET n == Len(a)
             v == a[n] * k + carry
         IN  Append(MulCarry(SubSeq(a, 1, n - 1), k, v \div 16), v % 16)

BigMul(a, k) == BigInt(MulCarry(a, k, 0))

\* a / k on bigints (truncating), k a small number: long division
RECURSIVE DivRem(_, _, _)
DivRem(a, k, rem) ==
    IF a = <<>> THEN <<>>
    ELSE LET v == rem * 16 + Head(a)
         IN  <<v \div k>> \o DivRem(Tail(a), k, v % k)

BigDiv(a, k) == BigInt(DivRem(a, k, 0))

\* ------------------------------------------------------------------ policy
\* String.prototype.toLowerCase on the target addresses of the model
ToLowerCase(t) == IF t = "0xAA" THEN "0xaa" ELSE t

\* '0x' + (g * 1_000_000_000n).toString(16)
gweiToWeiHex(g) == BigMul(BigMul(BigMul(NatToHex(g), 1000), 1000), 1000)

\* the condition of the if on the max fee; its body is empty
FeeOverCeiling(op) ==
    BigGt(BigInt(op.maxFeePerGas), BigInt(gweiToWeiHex(MaxFeeGwei)))

\* the condition of the if on the priority fee; its body is empty
PrioOverCeiling(op) ==
    BigGt(BigInt(op.maxPriorityFeePerGas), BigInt(gweiToWeiHex(MaxPriorityGwei)))

validate(op) ==
    (IF BigGt(BigInt(op.callGasLimit), NatToHex(MaxCallGas))
     THEN <<"callGasLimit too high">> ELSE <<>>)
    \o (IF Len(op.initCode) > 0 /\ op.signature = <<>>
        THEN <<"initCode present but signature empty (likely invalid)">>
        ELSE <<>>)

\* ------------------------------------------------------------ fee estimate
\* The result member of the relay's answer, a JSON value: type says which,
\* digits are the hex digits of a "0x..." string.
\* BigInt(v) throws: a SyntaxError for a string that is no number, a
\* TypeError for null or a missing result
BigIntThrows(v) == v.type \in {"text", "null"}

\* BigInt(v) when it returns: the number of a hex string, 0n for the empty
\* string
BigIntOf(v) ==
    CASE v.type = "hex" -> BigInt(v.digits)
      [] v.type = "empty" -> <<0>>

estimateFees(result) ==
    LET base == BigIntOf(result)
        prio == BigDiv(base, 10)
    IN  [maxFeePerGas |-> BigMul(base, 2), maxPriorityFeePerGas |-> prio]

\* -------------------------------------------------------------- the inputs
Entrypoint == "0x0576a174D229E3cFA37253523E645A78A0C91B57"

OpOk ==
    [callGasLimit |-> <<5, 2, 0, 8>>, maxFeePerGas |-> <<1>>,
     maxPriorityFeePerGas |-> <<1>>, initCode |-> <<>>, signature |-> <<1>>]

\* both fees "0x0"
OpZero == [OpOk EXCEPT !.maxFeePerGas = <<0>>, !.maxPriorityFeePerGas = <<0>>]

\* both fees zero, written "0x00"
OpZeroPadded ==
    [OpOk EXCEPT !.maxFeePerGas = <<0, 0>>, !.maxPriorityFeePerGas = <<0, 0>>]

\* max fee 0x10000000000, above 200 gwei = 0x2e90edd000, and priority fee
\* 0x4a817c801, one wei above 20 gwei
OpFeeHigh ==
    [OpOk EXCEPT !.maxFeePerGas = <<1, 0, 0, 0, 0, 0, 0, 0, 0, 0, 0>>,
                 !.maxPriorityFeePerGas = <<4, 10, 8, 1, 7, 12, 8, 0, 1>>]

\* account creation without a signature
OpUnsigned == [OpOk EXCEPT !.initCode = <<10, 11>>, !.signature = <<>>]

\* call gas 6000001
OpGasHigh == [OpOk EXCEPT !.callGasLimit = <<5, 11, 8, 13, 8, 1>>]

\* what the enqueue step can have written: target and operation
EntryChoices ==
    { [target |-> "0xaa", op |-> OpGasHigh],
      [target |-> "0xAA", op |-> OpZero],
      [target |-> "0xbb", op |-> OpUnsigned],
      [target |-> "0xbb", op |-> OpOk],
      [target |-> "0xbb", op |-> OpFeeHigh],
      [target |-> "0xbb", op |-> OpZeroPadded] }

\* result of eth_gasPrice: "0x19", "", "fast", null
GasPrices ==
    { [type |-> "hex", digits |-> <<1, 9>>],
      [type |-> "empty", digits |-> <<>>],
      [type |-> "text", digits |-> <<>>],
      [type |-> "null", digits |-> <<>>] }

\* no answer, or an answer that rpc throws on
NoResult == [type |-> "none", digits |-> <<>>]

\* what the enqueue step writes while the batcher is in use
ArrivalChoices ==
    { [target |-> "0xaa", op |-> OpOk], [target |-> "0xbb", op |-> OpUnsigned] }

\* POLICY.blockedTargets: new Set<string>([]), which nothing adds to
PolicyBlockedTargets == {}

\* a queue entry of the file; uid stands for the identity of the entry
MkEntry(c, uid) == [uid |-> uid, target |-> c.target, op |-> c.op]

SeqsUpTo(S, n) == UNION { [1..k -> S] : k \in 0..n }

\* ------------------------------------------------------------- queue file
\* the file: absent, JSON that is not an array, an array of entries, or
\* text that is not JSON (empty, or the cut-off start of an array)
ArrayStore(items) == [kind |-> "array", items |-> items]

\* what a write that was cut short leaves: open truncated the file, and a
\* proper prefix of JSON.stringify(items, null, 2) is not JSON
InvalidStore == [kind |-> "invalid", items |-> <<>>]

\* JSON.parse throws in loadQueue
loadQueueThrows(file) == file.kind = "invalid"

\* what loadQueue returns when it returns
loadQueue(file) == IF file.kind = "array" THEN file.items ELSE <<>>

\* -------------------------------------------------------------- selection
\* keys of the Map in insertion order: lowercased targets, first occurrence
RECURSIVE MapKeys(_)
MapKeys(items) ==
    IF items = <<>> THEN <<>>
    ELSE LET n == Len(items)
             before == MapKeys(SubSeq(items, 1, n - 1))
             key == ToLowerCase(items[n].target)
         IN  IF \E i \in 1..Len(before) : before[i] = key
             THEN before ELSE Append(before, key)

Indices(items) == [i \in 1..Len(items) |-> i]

\* the array of one key: the entries (by position in items) in queue order
GroupOf(items, key) ==
    SelectSeq(Indices(items), LAMBDA i : ToLowerCase(items[i].target) = key)

groupByTarget(items) ==
    LET keys == MapKeys(items)
    IN  [k \in 1..Len(keys) |-> [target |-> keys[k], items |-> GroupOf(items, keys[k])]]

\* sentRecently is the constant 0 in the loop
Allowed(cap) == Max(0, cap - 0)

\* slice(0, allowed + 1)
Picked_OneMore(g, allowed) == SubSeq(g, 1, Min(allowed + 1, Len(g)))

Picked(g, allowed) == SubSeq(g, 1, Min(allowed, Len(g)))

Rest(g, allowed) == SubSeq(g, Min(allowed, Len(g)) + 1, Len(g))

\* what one iteration of the outer loop pushes to toSend
GroupSend(items, grp, allowed, blocked) ==
    SelectSeq(Picked(grp.items, allowed),
              LAMBDA i : grp.target \notin blocked /\ validate(items[i].op) = <<>>)

\* keep.push(it) for every picked entry, the sent ones included
GroupKeep_AllPicked(items, grp, allowed, blocked) ==
    Picked(grp.items, allowed) \o Rest(grp.items, allowed)

\* what one iteration of the outer loop pushes to keep
GroupKeep(items, grp, allowed, blocked) ==
    SelectSeq(Picked(grp.items, allowed), LAMBDA i : grp.target \in blocked)
    \o Rest(grp.items, allowed)

RECURSIVE SelectLoop(_, _, _, _, _)
SelectLoop(items, groups, allowed, blocked, acc) ==
    IF groups = <<>> THEN acc
    ELSE SelectLoop(items, Tail(groups), allowed, blocked,
             [toSend |-> acc.toSend \o GroupSend(items, Head(groups), allowed, blocked),
              keep |-> acc.keep \o GroupKeep(items, Head(groups), allowed, blocked)])

\* toSend and keep after the selection loop, as positions in the loaded queue
Select(items, cap, blocked) ==
    SelectLoop(items, groupByTarget(items), Allowed(cap), blocked,
               [toSend |-> <<>>, keep |-> <<>>])

\* the fee backfill loop over toSend; the operations are those of the queue
Backfill(op, fees) ==
    [op EXCEPT !.maxFeePerGas =
                   IF @ = <<0>> THEN fees.maxFeePerGas ELSE @,
               !.maxPriorityFeePerGas =
                   IF @ = <<0>> THEN fees.maxPriorityFeePerGas ELSE @]

BackfillAll(items, sel, fees) ==
    [i \in 1..Len(items) |->
        IF \E k \in 1..Len(sel) : sel[k] = i
        THEN [items[i] EXCEPT !.op = Backfill(@, fees)]
        ELSE items[i]]

\* -------------------------------------------------------------------- state
VARIABLES
    store,          \* the queue file
    nextUid,        \* identity given to the next entry enqueued
    maxPerTarget,   \* args.maxPerTargetPerMin
    dryRun,         \* args.dryRun
    blockedTargets, \* POLICY.blockedTargets
    pc,             \* where main() is
    runs,           \* invocations of main() so far
    loaded,         \* the array loadQueue returned; toSend and keep share its entries
    queue,          \* main: queue, the array the variable refers to
    toSend,         \* main: toSend, positions in loaded
    keep,           \* main: keep, positions in loaded
    attempt,        \* main: attempt
    calls,          \* RPC calls made by this run, in order
    waits,          \* seconds slept by this run, in order
    saves,          \* saveQueue calls made by this run, failed ones included
    storeAtStart,   \* the queue file when this run started
    arrived,        \* uids enqueued after this run loaded the queue
    outcome,        \* how this run ended
    exitCode,       \* exit status of the process
    accepted,       \* bundles the relay accepted, over all runs (uids)
    slept,          \* a run has slept in backoff since the first run started
    sentInWindow    \* per target, operations sent by the runs that succeeded

vars == <<store, nextUid, maxPerTarget, dryRun, blockedTargets, pc, runs, loaded,
          queue, toSend, keep, attempt, calls, waits, saves, storeAtStart, arrived,
          outcome, exitCode, accepted, slept, sentInWindow>>

config == <<maxPerTarget, dryRun, blockedTargets>>

\* the keys groupByTarget can produce
TargetKeys == { ToLowerCase(c.target) : c \in EntryChoices \cup ArrivalChoices }

\* the counts after the operations of the entries sel of items were sent
CountSent(counts, items, sel) ==
    [t \in DOMAIN counts |->
        counts[t] + Cardinality({ k \in DOMAIN sel : ToLowerCase(items[sel[k]].target) = t })]

InitStores ==
    { [kind |-> "absent", items |-> <<>>], [kind |-> "other", items |-> <<>>],
      InvalidStore }
    \cup { ArrayStore([i \in 1..Len(cs) |-> MkEntry(cs[i], i)]) :
             cs \in SeqsUpTo(EntryChoices, MaxQueue) }

Init ==
    /\ store \in InitStores
    /\ nextUid = Len(store.items) + 1
    /\ maxPerTarget \in 0..MaxCap
    /\ dryRun \in BOOLEAN
    /\ blockedTargets = PolicyBlockedTargets
    /\ pc = "start"
    /\ runs = 1
    /\ loaded = <<>>
    /\ queue = <<>>
    /\ toSend = <<>>
    /\ keep = <<>>
    /\ attempt = 0
    /\ calls = <<>>
    /\ waits = <<>>
    /\ saves = 0
    /\ storeAtStart = store
    /\ arrived = {}
    /\ outcome = "running"
    /\ exitCode = 0
    /\ accepted = <<>>
    /\ slept = FALSE
    /\ sentInWindow = [t \in TargetKeys |-> 0]

\* ------------------------------------------------------------ the RPC calls
\* rpc(url, 'eth_gasPrice', []) and how it ended
GasPriceCall(ok, result) ==
    [method |-> "eth_gasPrice", ok |-> ok, result |-> result]

\* sendBundle: body = [ops, args.entrypoint]; uids names the entries sent
BundleCall(items, sel, ok) ==
    [method |-> "eth_sendUserOperationBundle", ok |-> ok,
     ops |-> [k \in 1..Len(sel) |-> items[sel[k]].op],
     uids |-> [k \in 1..Len(sel) |-> items[sel[k]].uid],
     entrypoint |-> Entrypoint]

\* the calls of this run, by method and by how they ended
SendCalls == { k \in DOMAIN calls : calls[k].method = "eth_sendUserOperationBundle" }

FeeCalls == { k \in DOMAIN calls : calls[k].method = "eth_gasPrice" }

FailedSends == { k \in SendCalls : ~calls[k].ok }

\* the submissions of this run that the relay accepted
AcceptedSends == SendCalls \ FailedSends

\* ------------------------------------------------------------------ main()
\* without the toSend.length === 0 test
Begin_NoSendTest ==
    /\ pc = "start"
    /\ LET q == loadQueue(store)
           sel == Select(q, maxPerTarget, blockedTargets)
       IN  IF loadQueueThrows(store)
           THEN /\ pc' = "done"
                /\ outcome' = "error"
                /\ exitCode' = 1
                /\ UNCHANGED <<loaded, queue, toSend, keep>>
           ELSE IF Len(q) = 0
           THEN /\ pc' = "done"
                /\ outcome' = "empty"
                /\ UNCHANGED <<loaded, queue, toSend, keep, exitCode>>
           ELSE /\ loaded' = q
                /\ queue' = q
                /\ toSend' = sel.toSend
                /\ keep' = sel.keep
                /\ UNCHANGED exitCode
                /\ pc' = "estimate"
                /\ UNCHANGED outcome
    /\ UNCHANGED <<store, nextUid, config, runs, attempt, calls, waits, saves,
                   storeAtStart, arrived, accepted,
                   slept, sentInWindow>>

\* load (a file that is not JSON makes JSON.parse throw: main() rejects and
\* the catch handler exits with 1), the empty test, grouping, the selection
\* loop and the toSend test
Begin ==
    /\ pc = "start"
    /\ LET q == loadQueue(store)
           sel == Select(q, maxPerTarget, blockedTargets)
       IN  IF loadQueueThrows(store)
           THEN /\ pc' = "done"
                /\ outcome' = "error"
                /\ exitCode' = 1
                /\ UNCHANGED <<loaded, queue, toSend, keep>>
           ELSE IF Len(q) = 0
           THEN /\ pc' = "done"
                /\ outcome' = "empty"
                /\ UNCHANGED <<loaded, queue, toSend, keep, exitCode>>
           ELSE /\ loaded' = q
                /\ queue' = q
                /\ toSend' = sel.toSend
                /\ keep' = sel.keep
                /\ UNCHANGED exitCode
                /\ IF Len(sel.toSend) = 0
                   THEN pc' = "done" /\ outcome' = "nothing"
                   ELSE pc' = "estimate" /\ UNCHANGED outcome
    /\ UNCHANGED <<store, nextUid, config, runs, attempt, calls, waits, saves,
                   storeAtStart, arrived, accepted,
                   slept, sentInWindow>>

\* rpc returns a result that BigInt takes and estimateFees returns; the
\* backfill loop; the dry-run test
EstimateOk ==
    /\ pc = "estimate"
    /\ \E result \in GasPrices :
          /\ ~BigIntThrows(result)
          /\ loaded' = BackfillAll(loaded, toSend, estimateFees(result))
          /\ queue' = loaded'
          /\ calls' = Append(calls, GasPriceCall(TRUE, result))
    /\ IF dryRun
       THEN pc' = "done" /\ outcome' = "dryrun"
       ELSE pc' = "attempt" /\ UNCHANGED outcome
    /\ UNCHANGED <<store, nextUid, config, runs, toSend, keep, attempt, waits,
                   saves, storeAtStart, arrived, exitCode, accepted,
                   slept, sentInWindow>>

\* estimateFees throws, in rpc or in BigInt of the result: main() rejects and
\* the catch handler exits with 1
EstimateFail ==
    /\ pc = "estimate"
    /\ \E call \in {GasPriceCall(FALSE, NoResult)}
                    \cup { GasPriceCall(TRUE, r) : r \in { v \in GasPrices : BigIntThrows(v) } } :
          calls' = Append(calls, call)
    /\ pc' = "done"
    /\ outcome' = "error"
    /\ exitCode' = 1
    /\ UNCHANGED <<store, nextUid, config, runs, loaded, queue, toSend, keep, attempt,
                   waits, saves, storeAtStart, arrived, accepted,
                   slept, sentInWindow>>

\* sendBundle returns: the relay accepted the bundle
SendOk ==
    /\ pc = "attempt"
    /\ attempt < MaxAttempts
    /\ calls' = Append(calls, BundleCall(loaded, toSend, TRUE))
    /\ accepted' = Append(accepted, BundleCall(loaded, toSend, TRUE).uids)
    /\ pc' = "save"
    /\ UNCHANGED <<store, nextUid, config, runs, loaded, queue, toSend, keep, attempt,
                   waits, saves, storeAtStart, arrived, outcome, exitCode,
                   slept, sentInWindow>>

\* queue = keep; saveQueue(qfile, queue) writes the file; return
SaveKept ==
    /\ pc = "save"
    /\ queue' = [k \in 1..Len(keep) |-> loaded[keep[k]]]
    /\ store' = ArrayStore(queue')
    /\ saves' = saves + 1
    /\ pc' = "done"
    /\ outcome' = "success"
    /\ UNCHANGED <<nextUid, config, runs, loaded, toSend, keep, attempt, calls,
                   waits, storeAtStart, arrived, exitCode, accepted, slept>>
    /\ sentInWindow' = CountSent(sentInWindow, loaded, toSend)

\* queue = keep; fs.writeFileSync throws in saveQueue: at open, and the file
\* stays as it is, or while writing, after open truncated the file; the catch
\* of the retry loop takes it for a failed submission: attempt++, the wait is
\* computed and the sleep starts
SaveFail ==
    /\ pc = "save"
    /\ Cardinality(AcceptedSends) <= MaxWriteFailures
    /\ queue' = [k \in 1..Len(keep) |-> loaded[keep[k]]]
    /\ store' \in {store, InvalidStore}
    /\ saves' = saves + 1
    /\ attempt' = attempt + 1
    /\ waits' = Append(waits, Min(BackoffCapSec, Pow2(attempt')))
    /\ pc' = "sleep"
    /\ UNCHANGED <<nextUid, config, runs, loaded, toSend, keep, calls,
                   storeAtStart, arrived, outcome, exitCode, accepted,
                   slept, sentInWindow>>

\* sendBundle throws: attempt++, the wait is computed and the sleep starts
SendFail ==
    /\ pc = "attempt"
    /\ attempt < MaxAttempts
    /\ calls' = Append(calls, BundleCall(loaded, toSend, FALSE))
    /\ attempt' = attempt + 1
    /\ waits' = Append(waits, Min(BackoffCapSec, Pow2(attempt')))
    /\ pc' = "sleep"
    /\ UNCHANGED <<store, nextUid, config, runs, loaded, queue, toSend, keep, saves,
                   storeAtStart, arrived, outcome, exitCode, accepted,
                   slept, sentInWindow>>

\* after the loop the queue in memory is written back
Wake_Resave ==
    /\ pc = "sleep"
    /\ IF attempt < MaxAttempts
       THEN pc' = "attempt" /\ UNCHANGED <<outcome, store, saves>>
       ELSE /\ pc' = "done"
            /\ outcome' = "exhausted"
            /\ store' = ArrayStore(queue)
            /\ saves' = saves
    /\ UNCHANGED <<nextUid, config, runs, loaded, queue, toSend, keep, attempt,
                   calls, waits, storeAtStart, arrived, exitCode, accepted, sentInWindow>>
    /\ slept' = TRUE

\* the timer fires; the loop test; after the loop main() returns normally
Wake ==
    /\ pc = "sleep"
    /\ IF attempt < MaxAttempts
       THEN pc' = "attempt" /\ UNCHANGED outcome
       ELSE pc' = "done" /\ outcome' = "exhausted"
    /\ UNCHANGED <<store, nextUid, config, runs, loaded, queue, toSend, keep, attempt,
                   calls, waits, saves, storeAtStart, arrived, exitCode, accepted, sentInWindow>>
    /\ slept' = TRUE

\* --------------------------------------------------------- the environment
Running == pc \in {"start", "estimate", "attempt", "save", "sleep"}

\* between loadQueue and saveQueue (or the return without it)
Loaded == pc \in {"estimate", "attempt", "save", "sleep"}

\* the process is terminated from outside; its memory is gone. Terminated
\* within fs.writeFileSync, after open truncated the file, it leaves the file
\* cut short
Kill ==
    /\ Running
    /\ store' \in IF pc = "save" THEN {store, InvalidStore} ELSE {store}
    /\ pc' = "killed"
    /\ outcome' = "killed"
    /\ loaded' = <<>>
    /\ queue' = <<>>
    /\ toSend' = <<>>
    /\ keep' = <<>>
    /\ attempt' = 0
    /\ calls' = <<>>
    /\ waits' = <<>>
    /\ UNCHANGED <<nextUid, config, runs, saves, storeAtStart, arrived,
                   exitCode, accepted,
                   sentInWindow>>
    /\ slept' = (slept \/ pc = "sleep")

\* the next invocation of the program
StartRun ==
    /\ pc \in {"done", "killed"}
    /\ runs < MaxRuns
    /\ runs' = runs + 1
    /\ pc' = "start"
    /\ loaded' = <<>>
    /\ queue' = <<>>
    /\ toSend' = <<>>
    /\ keep' = <<>>
    /\ attempt' = 0
    /\ calls' = <<>>
    /\ waits' = <<>>
    /\ saves' = 0
    /\ storeAtStart' = store
    /\ arrived' = {}
    /\ outcome' = "running"
    /\ exitCode' = 0
    /\ UNCHANGED <<store, nextUid, config, accepted,
                   slept, sentInWindow>>

\* the external enqueue step appends an entry to the queue file, if it can
\* read it
Enqueue ==
    /\ nextUid <= MaxQueueArrival + MaxArrivals
    /\ ~loadQueueThrows(store)
    /\ \E c \in ArrivalChoices :
          store' = ArrayStore(Append(loadQueue(store), MkEntry(c, nextUid)))
    /\ nextUid' = nextUid + 1
    /\ arrived' = IF Loaded THEN arrived \cup {nextUid} ELSE arrived
    /\ UNCHANGED <<config, pc, runs, loaded, queue, toSend, keep, attempt, calls, waits,
                   saves, storeAtStart, outcome, exitCode, accepted,
                   slept, sentInWindow>>

Next ==
    \/ Begin
    \/ EstimateOk
    \/ EstimateFail
    \/ SendOk
    \/ SaveKept
    \/ SaveFail
    \/ SendFail
    \/ Wake
    \/ Kill

\* one invocation of the program, a single writer of the queue file
Spec == Init /\ [][Next]_vars

NextRuns == Next \/ StartRun

InitRuns == Init /\ Len(store.items) <= MaxQueueRuns

\* invocations one after another on the same queue file
SpecRuns == InitRuns /\ [][NextRuns]_vars

NextArrival == Next \/ Enqueue

\* the enqueue step may write the file while a run is under way
InitArrival == Init /\ Len(store.items) <= MaxQueueArrival

SpecArrival == InitArrival /\ [][NextArrival]_vars

\* ============================================================== properties
Range(s) == { s[k] : k \in DOMAIN s }

Injective(s) == \A k, l \in DOMAIN s : k # l => s[k] # s[l]

Uids(items) == [i \in 1..Len(items) |-> items[i].uid]

\* the queue the run loaded, as it is in the file
PreQueue == loadQueue(storeAtStart)

\* toSend and keep hold the result of the selection loop over queue
HasSelection ==
    \/ Loaded
    \/ pc = "done" /\ outcome \in {"nothing", "dryrun", "error", "exhausted"}

Sent == Range(toSend)

Retained == Range(keep)

Dropped == (1..Len(loaded)) \ (Sent \cup Retained)

SameTarget(items, i, j) ==
    ToLowerCase(items[i].target) = ToLowerCase(items[j].target)

\* position of entry i among the entries of its target, in queue order
GroupRank(items, i) == Cardinality({ j \in 1..i : SameTarget(items, i, j) })

RateLimitedAt(items, i) == GroupRank(items, i) > maxPerTarget

BlockedAt(items, i) == ToLowerCase(items[i].target) \in blockedTargets

\* C1: after the selection loop every entry of the loaded queue is sent,
\* retained or dropped and only one of them: toSend and keep have no entry in
\* common, neither holds an entry twice, and both hold entries of the queue.
C1_Partition ==
    HasSelection =>
        /\ Uids(loaded) = Uids(PreQueue)
        /\ Injective(toSend)
        /\ Injective(keep)
        /\ Sent \cap Retained = {}
        /\ Sent \cup Retained \cup Dropped = 1..Len(loaded)
        /\ Sent \cup Retained \subseteq 1..Len(loaded)

C1_Witness ==
    /\ HasSelection
    /\ Sent # {}
    /\ Retained # {}
    /\ Dropped # {}

\* C2: at most cap operations of one target are in toSend, each of them is
\* one of the cap earliest entries of its target, and the operations of one
\* target are in toSend in queue order.
C2_RateLimit ==
    HasSelection =>
        /\ \A i \in Sent : GroupRank(loaded, i) <= maxPerTarget
        /\ \A i \in Sent :
              Cardinality({ j \in Sent : SameTarget(loaded, i, j) }) <= maxPerTarget
        /\ \A k, l \in DOMAIN toSend :
              (k < l /\ SameTarget(loaded, toSend[k], toSend[l]))
                  => toSend[k] < toSend[l]

C2_Witness ==
    /\ HasSelection
    /\ maxPerTarget = 2
    /\ \E k, l \in DOMAIN toSend :
          /\ k < l
          /\ SameTarget(loaded, toSend[k], toSend[l])
          /\ \E i \in Retained :
                SameTarget(loaded, i, toSend[k]) /\ GroupRank(loaded, i) > 2

\* C3: when all 5 submissions of a run have failed the queue file is what it
\* was before the run, the fees backfilled in memory not written.
C3_ExhaustedStoreIntact ==
    Cardinality(FailedSends) = MaxAttempts => store = storeAtStart

C3_Witness ==
    /\ pc = "done"
    /\ outcome = "exhausted"
    /\ Cardinality(FailedSends) = 5
    /\ Dropped # {}
    /\ \E i \in Sent : loaded[i].op # storeAtStart.items[i].op
    /\ store = storeAtStart

\* the run returned after saveQueue wrote the file
Saved == pc = "done" /\ outcome = "success"

\* C4: the queue file is changed by a run only with the write that follows a
\* submission that returned success and ends the run, and then it holds the
\* rate-limited and the blocked entries exactly as they were in the file,
\* none of the sent or dropped entries; in every other state of the run the
\* file is what it was before the run.
C4_SaveOnlyRetained ==
    /\ ~Saved => store = storeAtStart
    /\ Saved =>
          /\ calls # <<>> /\ calls[Len(calls)].ok
          /\ calls[Len(calls)].method = "eth_sendUserOperationBundle"
          /\ store.kind = "array"
          /\ \A i \in 1..Len(PreQueue) :
                (RateLimitedAt(PreQueue, i) \/ BlockedAt(PreQueue, i))
                    <=> PreQueue[i] \in Range(store.items)
          /\ Range(store.items) \subseteq Range(PreQueue)
          /\ Injective(store.items)
          /\ \A u \in Range(calls[Len(calls)].uids) :
                u \notin Range(Uids(store.items))

InStore(u) == u \in Range(Uids(store.items))

InAccepted(u) == \E b \in DOMAIN accepted : u \in Range(accepted[b])

\* C5: an entry enqueued after the run loaded the queue and before it saved
\* is, once the run has finished, in the queue file or in an accepted bundle.
C5_ArrivalsSurvive ==
    pc = "done" => \A u \in arrived : InStore(u) \/ InAccepted(u)

\* C6: over all runs, killed ones included, no entry is in two bundles that
\* the relay accepted.
C6_AcceptedOnce ==
    \A b1, b2 \in DOMAIN accepted :
        b1 # b2 => Range(accepted[b1]) \cap Range(accepted[b2]) = {}

\* every entry of the loaded queue is rate-limited, blocked or invalid
NothingToSend ==
    \A i \in 1..Len(PreQueue) :
        \/ RateLimitedAt(PreQueue, i)
        \/ BlockedAt(PreQueue, i)
        \/ validate(PreQueue[i].op) # <<>>

\* C7: a run whose loaded queue is empty, or of which no entry is selected,
\* makes no RPC call and no saveQueue call and leaves the queue file as it was.
C7_NoOpRun ==
    (NothingToSend \/ outcome \in {"empty", "nothing"}) =>
        /\ calls = <<>>
        /\ saves = 0
        /\ store = storeAtStart
        /\ pc \in {"start", "done", "killed"}

C7_Witness ==
    /\ pc = "done"
    /\ outcome = "nothing"
    /\ Len(loaded) = 3
    /\ Retained # {}
    /\ Dropped # {}
    /\ calls = <<>>
    /\ store = storeAtStart

\* C8: with --dry-run the run makes no RPC call of either method and does not
\* write the queue file.
C8_DryRunSilent ==
    dryRun => (calls = <<>> /\ saves = 0 /\ store = storeAtStart)

\* C9: no operation whose max fee or priority fee is above the policy's
\* ceiling (validate reporting it, the entry being dropped) is in a bundle
\* that was submitted.
C9_OverCeilingNeverSent ==
    \A k \in SendCalls : \A n \in DOMAIN calls[k].ops :
        /\ ~FeeOverCeiling(calls[k].ops[n])
        /\ ~PrioOverCeiling(calls[k].ops[n])

\* the number a short hex string stands for
RECURSIVE HexToNat(_)
HexToNat(d) ==
    IF d = <<>> THEN 0 ELSE HexToNat(SubSeq(d, 1, Len(d) - 1)) * 16 + d[Len(d)]

IsZero(d) == \A k \in DOMAIN d : d[k] = 0

\* the operation of the entry with identity u, as it is in the queue file
Queued(u) == (CHOOSE e \in Range(PreQueue) : e.uid = u).op

\* the base fee the run took from the relay's answer
BaseFee ==
    HexToNat(BigIntOf(calls[CHOOSE k \in FeeCalls :
                               calls[k].ok /\ ~BigIntThrows(calls[k].result)].result))

\* C10: in a submitted bundle a max fee that was zero in the queue is 2*B,
\* a priority fee that was zero in the queue is B div 10, B the base fee
\* returned, and a fee that was not zero is as it was in the queue.
C10_Backfill ==
    \A k \in SendCalls : \A n \in DOMAIN calls[k].ops :
        LET was == Queued(calls[k].uids[n])
            now == calls[k].ops[n]
        IN  /\ IF IsZero(was.maxFeePerGas)
               THEN HexToNat(now.maxFeePerGas) = 2 * BaseFee
               ELSE now.maxFeePerGas = was.maxFeePerGas
            /\ IF IsZero(was.maxPriorityFeePerGas)
               THEN HexToNat(now.maxPriorityFeePerGas) = BaseFee \div 10
               ELSE now.maxPriorityFeePerGas = was.maxPriorityFeePerGas

\* the entries of the loaded queue that the selection loop sends
SendableAt(items, i) ==
    /\ ~RateLimitedAt(items, i)
    /\ ~BlockedAt(items, i)
    /\ validate(items[i].op) = <<>>

\* C11: a run makes at most 5 submission calls, each with the operations of
\* all selected entries (the same list in every call) and the entrypoint; no call follows
\* a call that succeeded; the run ends exhausted only with 5 failed calls,
\* and with 5 failed calls it submits no more and ends exhausted.
C11_Attempts ==
    /\ Cardinality(SendCalls) <= 5
    /\ \A k \in SendCalls :
          /\ calls[k].entrypoint = "0x0576a174D229E3cFA37253523E645A78A0C91B57"
          /\ Range(calls[k].uids) =
                { PreQueue[i].uid : i \in { j \in 1..Len(PreQueue) : SendableAt(PreQueue, j) } }
          /\ Len(calls[k].ops) = Len(calls[k].uids)
          /\ \A l \in SendCalls : calls[l].ops = calls[k].ops /\ calls[l].uids = calls[k].uids
          /\ calls[k].ok => k = Len(calls)
    /\ outcome = "exhausted" => Cardinality(FailedSends) = 5
    /\ Cardinality(FailedSends) = 5 =>
          /\ pc \in {"sleep", "done"}
          /\ pc = "done" => outcome = "exhausted"

\* C12: the n-th failed attempt of a run, n < 5, is followed by a sleep of
\* min(60, 2^n) seconds, and the 5th by none: a run sleeps at most 4 times.
C12_BackoffSchedule ==
    /\ Len(waits) <= 4
    /\ \A n \in DOMAIN waits : waits[n] = Min(60, Pow2(n))

\* C13: a run that exhausted its attempts ends with a non-zero exit status.
C13_ExhaustedExitStatus ==
    (pc = "done" /\ outcome = "exhausted") => exitCode # 0

\* the fee-price query k failed: the call failed or its result is no number
QueryFailed(k) == ~calls[k].ok \/ calls[k].result.type # "hex"

\* C14: when the fee-price query fails, by a failed call or by a result that
\* is not a number, the run ends in failure with no submission call made, no
\* fee put in place of the missing ones, and the queue file as it was.
C14_EstimationAborts ==
    (\E k \in FeeCalls : QueryFailed(k)) =>
        /\ SendCalls = {}
        /\ pc = "done"
        /\ outcome = "error"
        /\ exitCode # 0
        /\ loaded = PreQueue
        /\ saves = 0
        /\ store = storeAtStart

\* initCode present and signature empty
Unsigned(op) == Len(op.initCode) > 0 /\ op.signature = <<>>

UnsignedNeverSubmitted ==
    \A k \in SendCalls : \A n \in DOMAIN calls[k].ops : ~Unsigned(calls[k].ops[n])

\* C17: no submission call carries an operation with initCode and without
\* signature, and when a run in which a submission succeeded is over, no such
\* entry that was a candidate is in the queue file.
C17_UnsignedGone ==
    /\ UnsignedNeverSubmitted
    /\ (pc = "done" /\ AcceptedSends # {}) =>
          \A i \in 1..Len(PreQueue) :
              (Unsigned(PreQueue[i].op) /\ ~RateLimitedAt(PreQueue, i))
                  => PreQueue[i] \notin Range(store.items)

\* the entries of the loaded queue that the selection loop drops
DroppedAt(items, i) ==
    /\ ~RateLimitedAt(items, i)
    /\ ~BlockedAt(items, i)
    /\ validate(items[i].op) # <<>>

\* C18: when a run has ended, with a submission or with nothing selected, the
\* entries it dropped are no longer in the queue file.
C18_DroppedRemoved ==
    (pc = "done" /\ outcome \in {"success", "nothing"}) =>
        \A i \in 1..Len(PreQueue) :
            DroppedAt(PreQueue, i) => PreQueue[i] \notin Range(store.items)

\* C19: the fee-price query is made only by a run in which a selected
\* operation has a zero max fee or a zero priority fee.
C19_FeeQueryOnlyForZero ==
    FeeCalls # {} =>
        \E i \in 1..Len(PreQueue) :
            /\ SendableAt(PreQueue, i)
            /\ \/ IsZero(PreQueue[i].op.maxFeePerGas)
               \/ IsZero(PreQueue[i].op.maxPriorityFeePerGas)

\* C16: the operations sent for one target by the runs that succeeded are at
\* most the cap, as long as the runs are within one window of 60 seconds;
\* runs that never slept in backoff are (they take the time of their calls).
C16_RateLimitAcrossRuns ==
    ~slept => \A t \in DOMAIN sentInWindow : sentInWindow[t] <= maxPerTarget

\* ----------------------------------------------------------- repeated runs
\* the program is invoked again, as often as the scheduler likes
RunAgain ==
    /\ pc = "done"
    /\ pc' = "start"
    /\ loaded' = <<>>
    /\ queue' = <<>>
    /\ toSend' = <<>>
    /\ keep' = <<>>
    /\ attempt' = 0
    /\ calls' = <<>>
    /\ waits' = <<>>
    /\ saves' = 0
    /\ storeAtStart' = store
    /\ arrived' = {}
    /\ outcome' = "running"
    /\ exitCode' = 0
    /\ UNCHANGED <<store, nextUid, config, runs, accepted, slept, sentInWindow>>

\* cap >= 1, no dry run, a relay that answers and accepts every call, a
\* queue file that can be written, no termination from outside and no arrival
InitLive ==
    /\ Init
    /\ maxPerTarget >= 1
    /\ ~dryRun
    /\ Len(store.items) <= MaxQueueLive

NextLive ==
    \/ Begin
    \/ EstimateOk
    \/ SendOk
    \/ SaveKept
    \/ RunAgain

\* every step of a run is taken and the batcher is run again and again
SpecLive ==
    /\ InitLive
    /\ [][NextLive]_vars
    /\ WF_vars(Begin)
    /\ WF_vars(EstimateOk)
    /\ WF_vars(SendOk)
    /\ WF_vars(SaveKept)
    /\ WF_vars(RunAgain)

\* entry u is in the queue file, passes validation and its target is not
\* blocked, however the addresses are written
WaitsToBeSent(u) ==
    \E e \in Range(store.items) :
        /\ e.uid = u
        /\ validate(e.op) = <<>>
        /\ \A b \in blockedTargets : ToLowerCase(b) # ToLowerCase(e.target)

\* C20: with repeated runs every entry of the queue file that passes
\* validation and whose target is not blocked is eventually sent: there comes
\* a state in which none of them is left in the file, and an entry leaves the
\* file only with a bundle that the relay accepted.
C20_Progress ==
    <>(\A u \in 1..MaxQueueLive : WaitsToBeSent(u) => InAccepted(u))

====
